---- MODULE Spec2Model ----
(***************************************************************************)
(* voice-ptt: push-to-talk dictation daemon.                               *)
(* Model of the capture / transcribe / inject pipeline: startup audio      *)
(* setup with fallback, the polling event loop, the cpal audio callback    *)
(* thread, and the detached transcription jobs.                            *)
(***************************************************************************)
EXTENDS Integers, Sequences, FiniteSets, TLC

(* ------------------------------ bounds --------------------------------- *)
\* frames that pass the gate check over a whole run
MaxFrames == 3
\* transcription jobs spawned over a whole run
MaxJobs == 2
\* distinct recording paths /tmp/voice-ptt-<ts>.wav in use at once
MaxTs == 2
\* entries of the paste_overrides map of a config file
MaxOverrides == 2
\* characters of a transcription text handed to the injector
MaxText == 2

(* ------------------------- program constants --------------------------- *)
\* main.rs:234  m.len() > 44
WavHeaderLen == 44
\* audio.rs:52  i16::MAX
I16Max == 32767
\* f32 samples are modelled as the rationals k / F32Den, so 1.0 is F32Den
F32Den == 2

\* std::fs::metadata returned Err (main.rs:235 unwrap_or(false))
MetadataErr == -1
\* Option<PathBuf>::None (main.rs:33)
NoPath == 0

VARIABLES
    main_pc,        \* main(): "load_config" | "get_ptt_keycode" | "audio_new"
                    \*         | "capture_init" | "loop" | "exited"
    platform,       \* cfg(target_os): "linux" | "macos"
    sound_enabled,  \* app_config.sound_enabled
    config_file,    \* config.toml next to the executable: what is on disk
    app_config,     \* the AppConfig main() loaded (NoConfig before that)
    paste_overrides,\* app_config.paste_overrides
    ptt_key,        \* the Keycode main() polls for (NoKey before it is set)
    active_window,  \* the class name of the focused X11 window (<<>>: none)
    query_runs,     \* can `xdotool getactivewindow ..` be run for its output
    responses,      \* the `text` values the transcription service may answer
    clipboard,      \* the text the X11 CLIPBOARD selection holds
    audio_new,      \* the Result of AudioSystem::new() while it is matched on
    exit_error,     \* the error main() returned with, if it did
    init_warned,    \* the two eprintln! fallback warnings were printed
    capture_mode,   \* "none" | "Cpal" | "PwRecord"
    sample_format,  \* config.sample_format() of the primary device
    audio_buffer,   \* Arc<Mutex<Vec<i16>>>
    is_recording,   \* Arc<AtomicBool>
    loop_pc,        \* position of the event loop inside one iteration
    cb_pc,          \* audio callback: "idle" | "checked" (gate read true)
    cb_data,        \* the frame the callback is delivering
    frames,         \* number of frames that passed the gate check
    gated,          \* frames (converted) whose gate check read true this cycle
    buffer_snapshot,\* the last buffer_snapshot taken at stop
    recorder,       \* PwRecord.recorder: is the Option<Child> Some
    current_file,   \* PwRecord.current_file: NoPath or the path's timestamp
    files,          \* the timestamps ts for which /tmp/voice-ptt-<ts>.wav exists
    last,           \* what the most recent loop edge did (sounds, logs, spawn)
    spawned,        \* number of transcription jobs spawned so far
    jobs            \* the detached transcription jobs

vars == <<main_pc, platform, sound_enabled, config_file, app_config,
          paste_overrides, ptt_key, active_window, query_runs, responses,
          clipboard, audio_new, exit_error, init_warned,
          capture_mode, sample_format, audio_buffer, is_recording, loop_pc,
          cb_pc, cb_data, frames, gated, buffer_snapshot, recorder,
          current_file, files, last, spawned, jobs>>

setup_vars == <<main_pc, audio_new, exit_error, init_warned, capture_mode,
               sample_format>>
conf_vars == <<platform, sound_enabled, config_file, app_config,
               paste_overrides, ptt_key, active_window, query_runs, responses>>
cfg_vars == <<conf_vars, clipboard>>
cpal_vars == <<audio_buffer, is_recording, cb_pc, cb_data, frames, gated,
               buffer_snapshot>>
pw_vars == <<recorder, current_file>>

(* ------------------------------ helpers -------------------------------- *)
Clamp(x, lo, hi) == IF x < lo THEN lo ELSE IF x > hi THEN hi ELSE x

\* Rust `as i16` from a float truncates toward zero.
TruncDiv(a, b) == IF a >= 0 THEN a \div b ELSE -((-a) \div b)

\* audio.rs:52  (sample.clamp(-1.0, 1.0) * i16::MAX as f32) as i16
ConvertF32(k) == TruncDiv(Clamp(k, -F32Den, F32Den) * I16Max, F32Den)

ConvertFrame(fmt, data) ==
    IF fmt = "F32" THEN [i \in 1..Len(data) |-> ConvertF32(data[i])]
    ELSE data

\* the n-th frame the driver delivers while gated (raw device samples): one
\* sample or two, of different sign, and past full scale from n = 3 on
DeviceFrame(n) == IF n % 2 = 1 THEN <<n>> ELSE <<-n, n>>

\* injector.rs:9-21  play_sound: which player process is requested
PlaySound(enabled, which) == IF enabled THEN which ELSE "none"

\* size_ok with the comparison off by one (>= 44)
SizeOkMut(sz) == sz /= MetadataErr /\ sz >= WavHeaderLen
\* main.rs:233-235  metadata(..).map(|m| m.len() > 44).unwrap_or(false)
SizeOk(sz) == sz /= MetadataErr /\ sz > WavHeaderLen

\* what metadata() may say of a finished recording: no file, or its length
FileSizes == {MetadataErr, 0, WavHeaderLen, WavHeaderLen + 1}

Timestamps == 1..MaxTs

(* ------------------------------- text ---------------------------------- *)
\* the characters a text is made of are one-character strings
DQuote == "\""
Backslash == "\\"
LF == "\n"

\* char::is_whitespace, on the characters of the model
IsSpace(c) == c \in {" ", LF}

\* api.rs:87  response_data.text.trim()
RECURSIVE TrimStart(_)
TrimStart(t) == IF t /= <<>> /\ IsSpace(Head(t)) THEN TrimStart(Tail(t)) ELSE t

RECURSIVE TrimEnd(_)
TrimEnd(t) ==
    IF t /= <<>> /\ IsSpace(t[Len(t)]) THEN TrimEnd(SubSeq(t, 1, Len(t) - 1))
    ELSE t

Trim(t) == TrimEnd(TrimStart(t))

\* the `text` field of the JSON responses the service may send: nothing,
\* white space only, a word with white space around it
RespTexts == {<<>>, <<" ">>, <<" ", "a", " ">>}

\* every `text` of at most MaxText characters
TextChars == {" ", "a", DQuote, Backslash}

Responses == UNION {[1..n -> TextChars] : n \in 0..MaxText}

\* those of them that are empty or white space only
BlankResponses == {r \in Responses : \A i \in 1..Len(r) : IsSpace(r[i])}

(* ------------------------------ config --------------------------------- *)
\* HashMap::new(): the map with no entry
NoOverrides == [k \in {} |-> "none"]

\* config.rs:31-54  impl Default for AppConfig (the sound paths left out);
\* language "none" is Option::None
DefaultConfig ==
    [ptt_key |-> "RControl", typing_delay_ms |-> 50, initial_delay_ms |-> 150,
     model |-> "whisper-1", language |-> "none", sound_enabled |-> TRUE,
     paste_overrides |-> NoOverrides]

\* the AppConfig before main() has loaded one
NoConfig ==
    [ptt_key |-> "", typing_delay_ms |-> 0, initial_delay_ms |-> 0,
     model |-> "", language |-> "none", sound_enabled |-> FALSE,
     paste_overrides |-> NoOverrides]

\* what config.toml can be: not there, there but unreadable, readable but not
\* a valid AppConfig in TOML, or the TOML of the AppConfig c
AbsentFile == [status |-> "absent", parsed |-> NoConfig]
UnreadableFile == [status |-> "unreadable", parsed |-> NoConfig]
BadTomlFile == [status |-> "bad_toml", parsed |-> NoConfig]
ParsedFile(c) == [status |-> "ok", parsed |-> c]

\* the Keycode before main() has resolved it
NoKey == "none"

NoEvent == [ev |-> "none", held |-> FALSE, sound_call |-> "none",
            sound |-> "none", warn |-> FALSE, notify |-> "none",
            size |-> MetadataErr, job |-> 0]

(* ------------------------------- jobs ---------------------------------- *)
JobIds == 1..MaxJobs

\* the task has not slept initial_delay_ms
NotSlept == -1

\* slept: the milliseconds type_text slept before its first helper;
\* paste_key: the shortcut handed to xdotool key; script: the string literal
\* embedded in the AppleScript; pasted: what the clipboard held when
\* xdotool key ran (<<>>: it has not run); posts: the POST requests sent to
\* the transcription endpoint; lang_field: the `language` field of the form
\* sent ("none": the form had no such field)
NoJob == [pc |-> "unborn", kind |-> "none", samples |-> <<>>, path |-> NoPath,
          api |-> "none", text |-> <<>>, notify |-> "none", api_logged |-> FALSE,
          tt |-> "none", helpers |-> 0, nonzero |-> FALSE, inj_logged |-> FALSE,
          removed |-> FALSE, slept |-> NotSlept, paste_key |-> "none",
          script |-> <<>>, pasted |-> <<>>, posts |-> 0, lang_field |-> "none"]

NewJob(kind, samples, path) ==
    [NoJob EXCEPT !.pc = "transcribe", !.kind = kind, !.samples = samples,
                  !.path = path]

(* ------------------------------- Init ---------------------------------- *)
Init ==
    /\ main_pc = "audio_new"
    /\ platform \in {"linux", "macos"}
    /\ sound_enabled \in BOOLEAN
    /\ app_config = [DefaultConfig EXCEPT !.sound_enabled = sound_enabled]
    /\ config_file = IF sound_enabled THEN AbsentFile ELSE ParsedFile(app_config)
    /\ paste_overrides = DefaultConfig.paste_overrides
    /\ ptt_key = DefaultConfig.ptt_key
    /\ active_window = <<"x">>
    /\ query_runs = TRUE
    /\ responses = RespTexts
    /\ clipboard = <<"a">>
    /\ audio_new = "none"
    /\ exit_error = "none"
    /\ init_warned = FALSE
    /\ capture_mode = "none"
    /\ sample_format = "none"
    /\ audio_buffer = <<>>
    /\ is_recording = FALSE
    /\ loop_pc = "poll"
    /\ cb_pc = "idle"
    /\ cb_data = <<>>
    /\ frames = 0
    /\ gated = <<>>
    /\ buffer_snapshot = <<>>
    /\ recorder = FALSE
    /\ current_file = NoPath
    /\ files = {}
    /\ last = NoEvent
    /\ spawned = 0
    /\ jobs = [j \in JobIds |-> NoJob]

(* ------------------------- startup: audio setup ------------------------ *)
\* cpal sample formats: the two build_stream handles and one it does not
SampleFormats == {"F32", "I16", "U16"}

\* audio.rs:13-24  AudioSystem::new(): Err when there is no default input
\* device or no default input config, else the device and its config.
AudioNew ==
    /\ main_pc = "audio_new"
    /\ \E r \in {"ok", "no_device", "no_config"} :
        /\ audio_new' = r
        /\ IF r = "ok"
           THEN \E f \in SampleFormats : sample_format' = f
           ELSE sample_format' = "none"
    /\ main_pc' = "capture_init"
    /\ UNCHANGED <<exit_error, init_warned, capture_mode, cfg_vars, cpal_vars,
                   pw_vars, loop_pc, files, last, spawned, jobs>>

\* audio.rs:45-76  build_stream: bail on a format other than F32 and I16, else
\* whatever device.build_input_stream returns
BuildStreamResults(fmt) ==
    IF fmt \in {"F32", "I16"} THEN {"ok", "build_error"} ELSE {"bad_format"}

\* main.rs:88-117  match on AudioSystem::new():
\*   Ok  : build_stream(..)? and stream.play()? return from main on Err,
\*         otherwise CaptureMode::Cpal
\*   Err : two warnings, CaptureMode::PwRecord {None, None}
CaptureInit ==
    /\ main_pc = "capture_init"
    /\ audio_new' = "none"
    /\ IF audio_new = "ok"
       THEN \E b \in BuildStreamResults(sample_format) :
            \E pl \in {"ok", "play_error"} :
              LET err == IF b /= "ok" THEN b ELSE pl
              IN  /\ init_warned' = FALSE
                  /\ IF err = "ok"
                     THEN /\ capture_mode' = "Cpal"
                          /\ exit_error' = "none"
                          /\ main_pc' = "loop"
                     ELSE /\ capture_mode' = "none"
                          /\ exit_error' = err
                          /\ main_pc' = "exited"
       ELSE /\ capture_mode' = "PwRecord"
            /\ init_warned' = TRUE
            /\ exit_error' = "none"
            /\ main_pc' = "loop"
    /\ UNCHANGED <<sample_format, cfg_vars, cpal_vars, pw_vars, loop_pc, files,
                   last, spawned, jobs>>

(* --------------------- audio callback (driver thread) ------------------ *)
\* audio.rs:49 / 64  reader_is_recording.load(): the frame is dropped when the
\* gate reads false, otherwise the callback goes on to take the buffer lock.
CbCheck ==
    /\ main_pc = "loop" /\ capture_mode = "Cpal"
    /\ cb_pc = "idle"
    /\ IF is_recording
       THEN /\ frames < MaxFrames
            /\ cb_pc' = "checked"
            /\ cb_data' = DeviceFrame(frames + 1)
            /\ frames' = frames + 1
            /\ gated' = gated \o ConvertFrame(sample_format, DeviceFrame(frames + 1))
       ELSE UNCHANGED <<cb_pc, cb_data, frames, gated>>
    /\ UNCHANGED <<setup_vars, cfg_vars, audio_buffer, is_recording,
                   buffer_snapshot, pw_vars, loop_pc, files, last, spawned, jobs>>

\* audio.rs:50-55 / 65-67  lock, append the converted frame, unlock.
CbAppend ==
    /\ cb_pc = "checked"
    /\ audio_buffer' = audio_buffer \o ConvertFrame(sample_format, cb_data)
    /\ cb_pc' = "idle"
    /\ cb_data' = <<>>
    /\ UNCHANGED <<setup_vars, cfg_vars, is_recording, frames, gated,
                   buffer_snapshot, pw_vars, loop_pc, files, last, spawned, jobs>>

(* ------------------------ event loop, primary mode --------------------- *)
\* the poll with the start held back until no task is running
PollCpalMut ==
    /\ main_pc = "loop" /\ capture_mode = "Cpal"
    /\ loop_pc = "poll"
    /\ \E held \in BOOLEAN :
         IF held /\ ~is_recording
         THEN /\ spawned < MaxJobs
              /\ \A j \in JobIds : jobs[j].pc \in {"unborn", "done"}
              /\ loop_pc' = "start_clear"
              /\ last' = [NoEvent EXCEPT !.ev = "start", !.held = held,
                               !.sound_call = "start",
                               !.sound = PlaySound(sound_enabled, "start")]
              /\ UNCHANGED is_recording
         ELSE IF ~held /\ is_recording
         THEN /\ is_recording' = FALSE
              /\ loop_pc' = "stop_snapshot"
              /\ last' = [NoEvent EXCEPT !.ev = "stop", !.held = held,
                               !.sound_call = "end",
                               !.sound = PlaySound(sound_enabled, "end")]
         ELSE UNCHANGED <<is_recording, loop_pc, last>>
    /\ UNCHANGED <<setup_vars, cfg_vars, audio_buffer, cb_pc, cb_data, frames,
                   gated, buffer_snapshot, pw_vars, files, spawned, jobs>>

\* main.rs:129-147 and 169-180: one poll of the keyboard in Cpal mode.
\*   held, gate false : play the start earcon, go on to clear the buffer
\*   released, gate true : store(false), play the end earcon, go on to snapshot
\*   otherwise : nothing but the 20 ms sleep
PollCpal ==
    /\ main_pc = "loop" /\ capture_mode = "Cpal"
    /\ loop_pc = "poll"
    /\ \E held \in BOOLEAN :
         IF held /\ ~is_recording
         THEN /\ spawned < MaxJobs
              /\ loop_pc' = "start_clear"
              /\ last' = [NoEvent EXCEPT !.ev = "start", !.held = held,
                               !.sound_call = "start",
                               !.sound = PlaySound(sound_enabled, "start")]
              /\ UNCHANGED is_recording
         ELSE IF ~held /\ is_recording
         THEN /\ is_recording' = FALSE
              /\ loop_pc' = "stop_snapshot"
              /\ last' = [NoEvent EXCEPT !.ev = "stop", !.held = held,
                               !.sound_call = "end",
                               !.sound = PlaySound(sound_enabled, "end")]
         ELSE UNCHANGED <<is_recording, loop_pc, last>>
    /\ UNCHANGED <<setup_vars, cfg_vars, audio_buffer, cb_pc, cb_data, frames,
                   gated, buffer_snapshot, pw_vars, files, spawned, jobs>>

\* main.rs:142-144  lock, buffer.clear(), unlock
StartClear ==
    /\ loop_pc = "start_clear"
    /\ audio_buffer' = <<>>
    /\ loop_pc' = "start_store"
    /\ UNCHANGED <<setup_vars, cfg_vars, is_recording, cb_pc, cb_data, frames,
                   gated, buffer_snapshot, pw_vars, files, last, spawned, jobs>>

\* main.rs:145  is_recording.store(true); a new press/release cycle begins
StartStore ==
    /\ loop_pc = "start_store"
    /\ is_recording' = TRUE
    /\ gated' = <<>>
    /\ loop_pc' = "poll"
    /\ UNCHANGED <<setup_vars, cfg_vars, audio_buffer, cb_pc, cb_data, frames,
                   buffer_snapshot, pw_vars, files, last, spawned, jobs>>

\* the stop step without the `if !buffer_snapshot.is_empty()` guard
StopSnapshotMut ==
    /\ loop_pc = "stop_snapshot"
    /\ buffer_snapshot' = audio_buffer
    /\ spawned' = spawned + 1
    /\ jobs' = [jobs EXCEPT ![spawned + 1] = NewJob("samples", audio_buffer, NoPath)]
    /\ last' = [last EXCEPT !.job = spawned + 1]
    /\ loop_pc' = "poll"
    /\ UNCHANGED <<setup_vars, cfg_vars, audio_buffer, is_recording, cb_pc,
                   cb_data, frames, gated, pw_vars, files>>

\* main.rs:182-217  lock, clone, unlock; spawn a job unless the copy is empty
StopSnapshot ==
    /\ loop_pc = "stop_snapshot"
    /\ buffer_snapshot' = audio_buffer
    /\ IF audio_buffer /= <<>>
       THEN /\ spawned' = spawned + 1
            /\ jobs' = [jobs EXCEPT ![spawned + 1] =
                                        NewJob("samples", audio_buffer, NoPath)]
            /\ last' = [last EXCEPT !.job = spawned + 1]
       ELSE UNCHANGED <<spawned, jobs, last>>
    /\ loop_pc' = "poll"
    /\ UNCHANGED <<setup_vars, cfg_vars, audio_buffer, is_recording, cb_pc,
                   cb_data, frames, gated, pw_vars, files>>

(* ------------------------ event loop, fallback mode -------------------- *)
\* main.rs:38-42  the path is named by SystemTime::now() in milliseconds, a
\* wall clock: it may repeat a timestamp whose file or job is still around, or
\* give one that is not in use (all of those are alike: the least is taken).
UsedPaths ==
    files \cup {jobs[j].path : j \in {i \in JobIds : jobs[i].path /= NoPath}}

NowChoices ==
    LET fresh == Timestamps \ UsedPaths
    IN  UsedPaths \cup {t \in fresh : \A u \in fresh : t <= u}

\* the press whose spawn failure is only printed, not notified
PollPwStartMut ==
    /\ main_pc = "loop" /\ capture_mode = "PwRecord"
    /\ loop_pc = "poll"
    /\ ~recorder
    /\ spawned < MaxJobs
    /\ \E ok \in BOOLEAN :
         IF ok
         THEN /\ \E ts \in NowChoices : current_file' = ts
              /\ recorder' = TRUE
              /\ last' = [NoEvent EXCEPT !.ev = "start", !.held = TRUE,
                               !.sound_call = "start",
                               !.sound = PlaySound(sound_enabled, "start")]
         ELSE /\ UNCHANGED <<recorder, current_file>>
              /\ last' = [NoEvent EXCEPT !.ev = "start_failed", !.held = TRUE,
                               !.sound_call = "start",
                               !.sound = PlaySound(sound_enabled, "start"),
                               !.warn = TRUE]
    /\ UNCHANGED <<setup_vars, cfg_vars, cpal_vars, loop_pc, files, spawned, jobs>>

\* the press that stores the path it named although the spawn failed
PollPwStartPathMut ==
    /\ main_pc = "loop" /\ capture_mode = "PwRecord"
    /\ loop_pc = "poll"
    /\ ~recorder
    /\ spawned < MaxJobs
    /\ \E ok \in BOOLEAN :
       \E ts \in NowChoices :
         /\ current_file' = ts
         /\ IF ok
            THEN /\ recorder' = TRUE
                 /\ last' = [NoEvent EXCEPT !.ev = "start", !.held = TRUE,
                                  !.sound_call = "start",
                                  !.sound = PlaySound(sound_enabled, "start")]
            ELSE /\ UNCHANGED recorder
                 /\ last' = [NoEvent EXCEPT !.ev = "start_failed", !.held = TRUE,
                                  !.sound_call = "start",
                                  !.sound = PlaySound(sound_enabled, "start"),
                                  !.warn = TRUE, !.notify = "Voice PTT Error"]
    /\ UNCHANGED <<setup_vars, cfg_vars, cpal_vars, loop_pc, files, spawned, jobs>>

\* main.rs:37-58  start_pw_recording: Err when pw-record cannot be spawned,
\* else the child and /tmp/voice-ptt-<ts>.wav
\* main.rs:148-167 and 220-272: one poll of the keyboard in PwRecord mode.
PollPwStart ==
    /\ main_pc = "loop" /\ capture_mode = "PwRecord"
    /\ loop_pc = "poll"
    /\ ~recorder
    /\ spawned < MaxJobs
    /\ \E ok \in BOOLEAN :
         IF ok
         THEN /\ \E ts \in NowChoices : current_file' = ts
              /\ recorder' = TRUE
              /\ last' = [NoEvent EXCEPT !.ev = "start", !.held = TRUE,
                               !.sound_call = "start",
                               !.sound = PlaySound(sound_enabled, "start")]
         ELSE /\ UNCHANGED <<recorder, current_file>>
              /\ last' = [NoEvent EXCEPT !.ev = "start_failed", !.held = TRUE,
                               !.sound_call = "start",
                               !.sound = PlaySound(sound_enabled, "start"),
                               !.warn = TRUE, !.notify = "Voice PTT Error"]
    /\ UNCHANGED <<setup_vars, cfg_vars, cpal_vars, loop_pc, files, spawned, jobs>>

PollPwStop ==
    /\ main_pc = "loop" /\ capture_mode = "PwRecord"
    /\ loop_pc = "poll"
    /\ recorder
    /\ recorder' = FALSE
    /\ current_file' = NoPath
    /\ \E sz \in FileSizes :
        /\ files' = IF sz = MetadataErr THEN files \ {current_file}
                     ELSE files \cup {current_file}
        /\ IF current_file /= NoPath /\ SizeOk(sz)
           THEN /\ spawned' = spawned + 1
                /\ jobs' = [jobs EXCEPT ![spawned + 1] =
                                            NewJob("file", <<>>, current_file)]
                /\ last' = [NoEvent EXCEPT !.ev = "stop", !.sound_call = "end",
                                 !.sound = PlaySound(sound_enabled, "end"),
                                 !.size = sz, !.job = spawned + 1]
           ELSE /\ UNCHANGED <<spawned, jobs>>
                /\ last' = [NoEvent EXCEPT !.ev = "stop", !.sound_call = "end",
                                 !.sound = PlaySound(sound_enabled, "end"),
                                 !.size = sz, !.warn = (current_file /= NoPath)]
    /\ UNCHANGED <<setup_vars, cfg_vars, cpal_vars, loop_pc>>

\* main.rs:131, 169-170, 220-224  a poll that finds the key released and no
\* recorder: neither branch does anything; the key has been seen released
PollPwIdle ==
    /\ main_pc = "loop" /\ capture_mode = "PwRecord"
    /\ loop_pc = "poll"
    /\ ~recorder
    /\ last.held
    /\ last' = [last EXCEPT !.held = FALSE]
    /\ UNCHANGED <<setup_vars, cfg_vars, cpal_vars, pw_vars, loop_pc, files,
                   spawned, jobs>>

(* ------------------------- transcription client ------------------------ *)
\* api.rs:26-88  the ways transcribe / transcribe_wav_file return Err:
\* temp dir or WAV writer or file read (io_error), send (send_error),
\* non-2xx status (http_error), JSON decoding (parse_error)
ApiErrors == {"io_error", "send_error", "http_error", "parse_error"}

\* the task whose transcription error ends main(), as a `?` in the loop would
JobTranscribeAbortMut(j) ==
    /\ jobs[j].pc = "transcribe"
    /\ \/ \E e \in ApiErrors :
            /\ jobs' = [jobs EXCEPT ![j].api = e, ![j].api_logged = TRUE,
                                    ![j].notify = "Voice PTT Error",
                                    ![j].samples = <<>>, ![j].pc = "finish"]
            /\ main_pc' = "exited"
            /\ exit_error' = e
       \/ /\ jobs[j].kind = "file" => jobs[j].path \in files
          /\ \E t \in responses :
               jobs' = [jobs EXCEPT ![j].api = "ok", ![j].text = Trim(t),
                                    ![j].samples = <<>>, ![j].pc = "type_text"]
          /\ UNCHANGED <<main_pc, exit_error>>
    /\ UNCHANGED <<audio_new, init_warned, capture_mode, sample_format, cfg_vars,
                   cpal_vars, pw_vars, loop_pc, files, last, spawned>>

\* api.rs:32-51, 56-58  the errors returned before any request is made
ErrorsBeforeSend == {"io_error"}

\* api.rs:68-75  the number of times .send() is called for an outcome
Posts(outcome) == IF outcome \in ErrorsBeforeSend THEN 0 ELSE 1

\* api.rs:60-66  the `language` field of the multipart form: there only
\* `if let Some(lang) = &config.language`
LangField(config) ==
    IF config.language /= "none" THEN config.language ELSE "none"

\* the client sending the request a second time after a send error
JobTranscribeRetryMut(j) ==
    /\ jobs[j].pc = "transcribe"
    /\ \/ \E e \in ApiErrors :
            jobs' = [jobs EXCEPT ![j].api = e, ![j].api_logged = TRUE,
                        ![j].notify = "Voice PTT Error",
                        ![j].posts = IF e = "send_error" THEN 2 ELSE Posts(e),
                        ![j].lang_field = IF Posts(e) > 0 THEN LangField(app_config)
                                          ELSE "none",
                        ![j].samples = <<>>, ![j].pc = "finish"]
       \/ /\ jobs[j].kind = "file" => jobs[j].path \in files
          /\ \E t \in responses :
               jobs' = [jobs EXCEPT ![j].api = "ok", ![j].text = Trim(t),
                           ![j].posts = Posts("ok"),
                           ![j].lang_field = LangField(app_config),
                           ![j].samples = <<>>, ![j].pc = "type_text"]
    /\ UNCHANGED <<setup_vars, cfg_vars, cpal_vars, pw_vars, loop_pc, files, last,
                   spawned>>

\* the task with the Err arm falling through to the injector, unnotified
JobTranscribeMut(j) ==
    /\ jobs[j].pc = "transcribe"
    /\ \E e \in ApiErrors :
         jobs' = [jobs EXCEPT ![j].api = e, ![j].api_logged = TRUE,
                              ![j].text = <<"a">>, ![j].samples = <<>>,
                              ![j].pc = "type_text"]
    /\ UNCHANGED <<setup_vars, cfg_vars, cpal_vars, pw_vars, loop_pc, files, last,
                   spawned>>

\* main.rs:192-198, 210-213 (primary) and 241-247, 259-262 (fallback):
\* await the transcription; on Err log and notify, on Ok go on to type_text.
\* api.rs:55-88: the form is built and sent once; every error returns.
JobTranscribe(j) ==
    /\ jobs[j].pc = "transcribe"
    /\ \/ \E e \in ApiErrors :
            jobs' = [jobs EXCEPT ![j].api = e, ![j].api_logged = TRUE,
                        ![j].notify = "Voice PTT Error",
                        ![j].posts = Posts(e),
                        ![j].lang_field = IF Posts(e) > 0 THEN LangField(app_config)
                                          ELSE "none",
                        ![j].samples = <<>>, ![j].pc = "finish"]
       \/ /\ jobs[j].kind = "file" => jobs[j].path \in files
          /\ \E t \in responses :
               jobs' = [jobs EXCEPT ![j].api = "ok", ![j].text = Trim(t),
                           ![j].posts = Posts("ok"),
                           ![j].lang_field = LangField(app_config),
                           ![j].samples = <<>>, ![j].pc = "type_text"]
    /\ UNCHANGED <<setup_vars, cfg_vars, cpal_vars, pw_vars, loop_pc, files, last,
                   spawned>>

(* ------------------------------ injector ------------------------------- *)
\* what running a helper process can come to
HelperResults == {"spawn_fail", "exit0", "exit1"}

\* type_text going to the helpers without the initial_delay_ms sleep
JobTypeTextMut(j) ==
    /\ jobs[j].pc = "type_text"
    /\ IF jobs[j].text = <<>>
       THEN jobs' = [jobs EXCEPT ![j].tt = "ok", ![j].pc = "finish"]
       ELSE jobs' = [jobs EXCEPT ![j].tt = "running",
                        ![j].pc = IF platform = "linux" THEN "xsel"
                                  ELSE "osascript"]
    /\ UNCHANGED <<setup_vars, cfg_vars, cpal_vars, pw_vars, loop_pc, files, last,
                   spawned>>

\* type_text going to the paste shortcut without setting the clipboard
JobTypeTextPasteMut(j) ==
    /\ jobs[j].pc = "type_text"
    /\ IF jobs[j].text = <<>>
       THEN jobs' = [jobs EXCEPT ![j].tt = "ok", ![j].pc = "finish"]
       ELSE jobs' = [jobs EXCEPT ![j].tt = "running",
                        ![j].slept = app_config.initial_delay_ms,
                        ![j].pc = IF platform = "linux" THEN "paste"
                                  ELSE "osascript"]
    /\ UNCHANGED <<setup_vars, cfg_vars, cpal_vars, pw_vars, loop_pc, files, last,
                   spawned>>

\* type_text without the early return on empty text
JobTypeTextAlwaysMut(j) ==
    /\ jobs[j].pc = "type_text"
    /\ jobs' = [jobs EXCEPT ![j].tt = "running",
                    ![j].slept = app_config.initial_delay_ms,
                    ![j].pc = IF platform = "linux" THEN "xsel"
                              ELSE "osascript"]
    /\ UNCHANGED <<setup_vars, cfg_vars, cpal_vars, pw_vars, loop_pc, files, last,
                   spawned>>

\* injector.rs:54-59  empty text returns Ok at once; otherwise the task sleeps
\* initial_delay_ms and, that over, goes on to the platform's helpers.
JobTypeText(j) ==
    /\ jobs[j].pc = "type_text"
    /\ IF jobs[j].text = <<>>
       THEN jobs' = [jobs EXCEPT ![j].tt = "ok", ![j].pc = "finish"]
       ELSE jobs' = [jobs EXCEPT ![j].tt = "running",
                        ![j].slept = app_config.initial_delay_ms,
                        ![j].pc = IF platform = "linux" THEN "xsel"
                                  ELSE "osascript"]
    /\ UNCHANGED <<setup_vars, cfg_vars, cpal_vars, pw_vars, loop_pc, files, last,
                   spawned>>

\* the job's `if let Err(e) = type_text(..)` arm: main.rs:199-208 / 248-257
InjectFailed(job) ==
    [job EXCEPT !.tt = "err", !.inj_logged = TRUE, !.pc = "finish"]

\* injector.rs:65-79  spawn xsel (Err if that fails), write the text to its
\* stdin (Err if that fails), wait for it; the exit status is not looked at.
\* An xsel that exits with 0 has taken the text as the clipboard.
JobXsel(j) ==
    /\ jobs[j].pc = "xsel"
    /\ \E r \in HelperResults \cup {"write_fail"} :
         /\ clipboard' = IF r = "exit0" THEN jobs[j].text ELSE clipboard
         /\ IF r = "spawn_fail"
            THEN jobs' = [jobs EXCEPT ![j] = InjectFailed(@)]
            ELSE IF r = "write_fail"
            THEN jobs' = [jobs EXCEPT ![j] =
                             [InjectFailed(@) EXCEPT !.helpers = @ + 1]]
            ELSE jobs' = [jobs EXCEPT ![j].helpers = @ + 1,
                             ![j].nonzero = @ \/ (r = "exit1"),
                             ![j].pc = "paste"]
    /\ UNCHANGED <<setup_vars, conf_vars, cpal_vars, pw_vars, loop_pc, files,
                   last, spawned>>

(* window class and paste shortcut *)
\* str::to_lowercase (Unicode lower case), on the characters of the model
LowerChar(c) == IF c = "K" THEN "k" ELSE IF c = "Ä" THEN "ä" ELSE c

ToLowercase(name) == [i \in 1..Len(name) |-> LowerChar(name[i])]

\* window class names, the shortcuts a config may map them to, and the
\* paste_overrides maps of at most MaxOverrides entries
WindowNames == {<<"K">>, <<"k">>, <<"x">>, <<"Ä">>, <<"ä">>}

Shortcuts == {"ctrl+shift+v", "shift+Insert"}

OverrideMaps ==
    UNION {[D -> Shortcuts] :
             D \in {S \in SUBSET WindowNames : Cardinality(S) <= MaxOverrides}}

\* the orders in which `for (name, shortcut) in &config.paste_overrides` may
\* visit the entries: HashMap iteration order is unspecified
IterOrders(m) ==
    {o \in [1..Cardinality(DOMAIN m) -> DOMAIN m] :
        \A i, k \in DOMAIN o : i /= k => o[i] /= o[k]}

\* injector.rs:82, 94-107  the shortcut of the first entry visited whose
\* lower-cased name is the lower-cased window class, else "ctrl+v"
RECURSIVE PasteKey(_, _, _)
PasteKey(m, order, lower_class) ==
    IF order = <<>> THEN "ctrl+v"
    ELSE IF ToLowercase(Head(order)) = lower_class THEN m[Head(order)]
    ELSE PasteKey(m, Tail(order), lower_class)

\* what `xdotool getactivewindow getwindowclassname` writes to stdout: the
\* class name and a newline, or nothing when there is no focused window
QueryStdout(w) == IF w = <<>> THEN <<>> ELSE w \o <<LF>>

\* injector.rs:84-116, 140  the window class query (.output(): an Err leaves
\* "ctrl+v"), the lookup, then xdotool key <paste_key>: .status() is Err only
\* when the process cannot be run; the ExitStatus is dropped and Ok(()) returned.
\* The shortcut makes the focused window paste what the clipboard holds then.
JobPaste(j) ==
    /\ jobs[j].pc = "paste"
    /\ \E r \in HelperResults :
       \E order \in IterOrders(paste_overrides) :
         LET window_class == Trim(QueryStdout(active_window))
             paste_key == IF query_runs
                          THEN PasteKey(paste_overrides, order,
                                        ToLowercase(window_class))
                          ELSE "ctrl+v"
             queries == IF query_runs THEN 1 ELSE 0
         IN  IF r = "spawn_fail"
             THEN jobs' = [jobs EXCEPT ![j] =
                              [InjectFailed(@) EXCEPT !.helpers = @ + queries,
                                                      !.paste_key = paste_key]]
             ELSE jobs' = [jobs EXCEPT ![j].helpers = @ + queries + 1,
                              ![j].nonzero = @ \/ (r = "exit1"),
                              ![j].paste_key = paste_key,
                              ![j].pasted = clipboard,
                              ![j].tt = "ok", ![j].pc = "finish"]
    /\ UNCHANGED <<setup_vars, cfg_vars, cpal_vars, pw_vars, loop_pc, files, last,
                   spawned>>

(* AppleScript *)
\* str::replace(from, to) for a one-character pattern
RECURSIVE Replace(_, _, _)
Replace(t, from, to) ==
    IF t = <<>> THEN <<>>
    ELSE (IF Head(t) = from THEN to ELSE <<Head(t)>>) \o Replace(Tail(t), from, to)

\* injector.rs:131  text.replace("\"", "\\\"").replace("\\", "\\\\")
Escape(text) ==
    Replace(Replace(text, DQuote, <<Backslash, DQuote>>),
            Backslash, <<Backslash, Backslash>>)

\* injector.rs:119-140  build the script around the escaped text, then
\* osascript -e <script>: as for xdotool key
JobOsascript(j) ==
    /\ jobs[j].pc = "osascript"
    /\ \E r \in HelperResults :
         IF r = "spawn_fail"
         THEN jobs' = [jobs EXCEPT ![j] =
                          [InjectFailed(@) EXCEPT !.script = Escape(jobs[j].text)]]
         ELSE jobs' = [jobs EXCEPT ![j].helpers = @ + 1,
                          ![j].nonzero = @ \/ (r = "exit1"),
                          ![j].script = Escape(jobs[j].text),
                          ![j].tt = "ok", ![j].pc = "finish"]
    /\ UNCHANGED <<setup_vars, cfg_vars, cpal_vars, pw_vars, loop_pc, files, last,
                   spawned>>

\* what is left of a task that has ended: the notification it sent
Ended(job) == [NoJob EXCEPT !.pc = "done", !.notify = job.notify]

\* the end of the task also resetting the recording gate
JobFinishMut(j) ==
    /\ jobs[j].pc = "finish"
    /\ is_recording' = FALSE
    /\ IF jobs[j].kind = "file"
       THEN /\ files' = files \ {jobs[j].path}
            /\ jobs' = [jobs EXCEPT ![j] = [Ended(@) EXCEPT !.removed = TRUE]]
       ELSE /\ UNCHANGED files
            /\ jobs' = [jobs EXCEPT ![j] = Ended(@)]
    /\ UNCHANGED <<setup_vars, cfg_vars, audio_buffer, cb_pc, cb_data, frames,
                   gated, buffer_snapshot, pw_vars, loop_pc, last, spawned>>

\* the end of the task with the file removed only after a successful
\* transcription
JobFinishKeepMut(j) ==
    /\ jobs[j].pc = "finish"
    /\ IF jobs[j].kind = "file" /\ jobs[j].api = "ok"
       THEN /\ files' = files \ {jobs[j].path}
            /\ jobs' = [jobs EXCEPT ![j] = [Ended(@) EXCEPT !.removed = TRUE]]
       ELSE /\ UNCHANGED files
            /\ jobs' = [jobs EXCEPT ![j] = Ended(@)]
    /\ UNCHANGED <<setup_vars, cfg_vars, cpal_vars, pw_vars, loop_pc, last,
                   spawned>>

\* main.rs:215 (primary) and 264-265 (fallback): remove the recorded file,
\* print the ready line, the task ends and drops what it owned.
JobFinish(j) ==
    /\ jobs[j].pc = "finish"
    /\ IF jobs[j].kind = "file"
       THEN /\ files' = files \ {jobs[j].path}
            /\ jobs' = [jobs EXCEPT ![j] = [Ended(@) EXCEPT !.removed = TRUE]]
       ELSE /\ UNCHANGED files
            /\ jobs' = [jobs EXCEPT ![j] = Ended(@)]
    /\ UNCHANGED <<setup_vars, cfg_vars, cpal_vars, pw_vars, loop_pc, last,
                   spawned>>

(* --------------------------- specification ----------------------------- *)
Next ==
    \/ AudioNew
    \/ CaptureInit
    \/ CbCheck
    \/ CbAppend
    \/ PollCpal
    \/ StartClear
    \/ StartStore
    \/ StopSnapshot
    \/ PollPwStart
    \/ PollPwStop
    \/ PollPwIdle
    \/ \E j \in JobIds : JobTranscribe(j)
    \/ \E j \in JobIds : JobTypeText(j)
    \/ \E j \in JobIds : JobXsel(j)
    \/ \E j \in JobIds : JobPaste(j)
    \/ \E j \in JobIds : JobOsascript(j)
    \/ \E j \in JobIds : JobFinish(j)

Spec == Init /\ [][Next]_vars

\* the behaviours in which the primary (cpal) backend is what captures
NextPrimary ==
    \/ AudioNew
    \/ CaptureInit
    \/ CbCheck
    \/ CbAppend
    \/ PollCpal
    \/ StartClear
    \/ StartStore
    \/ StopSnapshot
    \/ \E j \in JobIds : JobTranscribe(j)
    \/ \E j \in JobIds : JobTypeText(j)
    \/ \E j \in JobIds : JobXsel(j)
    \/ \E j \in JobIds : JobPaste(j)
    \/ \E j \in JobIds : JobOsascript(j)
    \/ \E j \in JobIds : JobFinish(j)

SpecPrimary == Init /\ [][NextPrimary]_vars

\* the behaviours in which the fallback (pw-record) backend is what captures
NextFallback ==
    \/ AudioNew
    \/ CaptureInit
    \/ PollPwStart
    \/ PollPwStop
    \/ PollPwIdle
    \/ \E j \in JobIds : JobTranscribe(j)
    \/ \E j \in JobIds : JobTypeText(j)
    \/ \E j \in JobIds : JobXsel(j)
    \/ \E j \in JobIds : JobPaste(j)
    \/ \E j \in JobIds : JobOsascript(j)
    \/ \E j \in JobIds : JobFinish(j)

SpecFallback == Init /\ [][NextFallback]_vars

\* the injector at work: one primary-mode job about to be transcribed, with
\* the service's answers (any text on macOS; blank ones only, on both) and the
\* override maps, the focused window and the window query (Linux) ranging
\* over what a run may meet.
InitInjector ==
    /\ main_pc = "loop"
    /\ platform \in {"linux", "macos"}
    /\ sound_enabled = DefaultConfig.sound_enabled
    /\ paste_overrides \in
          IF platform = "linux" THEN OverrideMaps ELSE {NoOverrides}
    /\ app_config = [DefaultConfig EXCEPT !.paste_overrides = paste_overrides]
    /\ config_file = IF app_config = DefaultConfig THEN AbsentFile
                     ELSE ParsedFile(app_config)
    /\ ptt_key = DefaultConfig.ptt_key
    /\ active_window \in
          IF platform = "linux" THEN WindowNames \cup {<<>>} ELSE {<<"x">>}
    /\ query_runs \in IF platform = "linux" THEN BOOLEAN ELSE {TRUE}
    /\ responses \in IF platform = "linux" THEN {RespTexts, BlankResponses}
                     ELSE {Responses, BlankResponses}
    /\ clipboard = <<"a">>
    /\ audio_new = "none"
    /\ exit_error = "none"
    /\ init_warned = FALSE
    /\ capture_mode = "Cpal"
    /\ sample_format = "I16"
    /\ audio_buffer = ConvertFrame(sample_format, DeviceFrame(1))
    /\ is_recording = FALSE
    /\ loop_pc = "poll"
    /\ cb_pc = "idle"
    /\ cb_data = <<>>
    /\ frames = 1
    /\ gated = audio_buffer
    /\ buffer_snapshot = audio_buffer
    /\ recorder = FALSE
    /\ current_file = NoPath
    /\ files = {}
    /\ last = [NoEvent EXCEPT !.ev = "stop", !.sound_call = "end",
                     !.sound = PlaySound(sound_enabled, "end"), !.job = 1]
    /\ spawned = 1
    /\ jobs = [j \in JobIds |->
                 IF j = 1 THEN NewJob("samples", audio_buffer, NoPath) ELSE NoJob]

NextInjector ==
    \/ \E j \in JobIds : JobTranscribe(j)
    \/ \E j \in JobIds : JobTypeText(j)
    \/ \E j \in JobIds : JobXsel(j)
    \/ \E j \in JobIds : JobPaste(j)
    \/ \E j \in JobIds : JobOsascript(j)
    \/ \E j \in JobIds : JobFinish(j)

SpecInjector == InitInjector /\ [][NextInjector]_vars

\* two texts the service may answer that differ, and a clipboard that holds
\* neither
ClipTexts == {<<"a">>, <<"a", "a">>}

\* the pipeline on Linux with the primary backend, the service answering
\* different texts to different requests
InitClipboard ==
    /\ main_pc = "audio_new"
    /\ platform = "linux"
    /\ sound_enabled = DefaultConfig.sound_enabled
    /\ app_config = DefaultConfig
    /\ config_file = AbsentFile
    /\ paste_overrides = DefaultConfig.paste_overrides
    /\ ptt_key = DefaultConfig.ptt_key
    /\ active_window = <<"x">>
    /\ query_runs = TRUE
    /\ responses = ClipTexts
    /\ clipboard = <<"x">>
    /\ audio_new = "none"
    /\ exit_error = "none"
    /\ init_warned = FALSE
    /\ capture_mode = "none"
    /\ sample_format = "none"
    /\ audio_buffer = <<>>
    /\ is_recording = FALSE
    /\ loop_pc = "poll"
    /\ cb_pc = "idle"
    /\ cb_data = <<>>
    /\ frames = 0
    /\ gated = <<>>
    /\ buffer_snapshot = <<>>
    /\ recorder = FALSE
    /\ current_file = NoPath
    /\ files = {}
    /\ last = NoEvent
    /\ spawned = 0
    /\ jobs = [j \in JobIds |-> NoJob]

NextClipboard ==
    \/ AudioNew
    \/ CaptureInit
    \/ CbCheck
    \/ CbAppend
    \/ PollCpal
    \/ StartClear
    \/ StartStore
    \/ StopSnapshot
    \/ \E j \in JobIds : JobTranscribe(j)
    \/ \E j \in JobIds : JobTypeText(j)
    \/ \E j \in JobIds : JobXsel(j)
    \/ \E j \in JobIds : JobPaste(j)
    \/ \E j \in JobIds : JobFinish(j)

SpecClipboard == InitClipboard /\ [][NextClipboard]_vars

(* ------------------------- startup: configuration ---------------------- *)
\* the key names device_query's Keycode::from_str resolves, among those tried
KeycodeNames == {"RControl", "LAlt"}

\* config.rs:100  Keycode::from_str(&self.ptt_key): the Keycode of that name,
\* or Err
KeycodeFromStr(name) == IF name \in KeycodeNames THEN name ELSE "Err"

\* the ptt_key strings and the AppConfig values a config.toml may hold
PttKeyNames == KeycodeNames \cup {"InvalidKeyName", ""}

ConfigValues ==
    [ptt_key : PttKeyNames, typing_delay_ms : {50}, initial_delay_ms : {0, 150},
     model : {"whisper-1"}, language : {"none", "en"}, sound_enabled : BOOLEAN,
     paste_overrides : {NoOverrides, [k \in {<<"k">>} |-> "ctrl+shift+v"]}]

ConfigFiles ==
    {AbsentFile, UnreadableFile, BadTomlFile}
    \cup {ParsedFile(c) : c \in ConfigValues}

\* load() failing where the file is missing
ConfigLoadMut ==
    /\ main_pc = "load_config"
    /\ IF config_file.status /= "ok"
       THEN /\ exit_error' = "config_error"
            /\ main_pc' = "exited"
            /\ UNCHANGED <<app_config, sound_enabled, paste_overrides>>
       ELSE /\ app_config' = config_file.parsed
            /\ sound_enabled' = app_config'.sound_enabled
            /\ paste_overrides' = app_config'.paste_overrides
            /\ main_pc' = "get_ptt_keycode"
            /\ UNCHANGED exit_error
    /\ UNCHANGED <<platform, config_file, ptt_key, active_window, query_runs,
                   responses, clipboard, audio_new, init_warned, capture_mode,
                   sample_format, cpal_vars, pw_vars, loop_pc, files, last,
                   spawned, jobs>>

\* main.rs:82-83, config.rs:58-68  AppConfig::load(&config_path)?
\*   the path does not exist : Ok(Self::default())
\*   read_to_string or toml::from_str fails : Err, and main returns with it
\*   otherwise : Ok(the parsed config)
ConfigLoad ==
    /\ main_pc = "load_config"
    /\ IF config_file.status \in {"unreadable", "bad_toml"}
       THEN /\ exit_error' = "config_error"
            /\ main_pc' = "exited"
            /\ UNCHANGED <<app_config, sound_enabled, paste_overrides>>
       ELSE /\ app_config' = IF config_file.status = "absent" THEN DefaultConfig
                             ELSE config_file.parsed
            /\ sound_enabled' = app_config'.sound_enabled
            /\ paste_overrides' = app_config'.paste_overrides
            /\ main_pc' = "get_ptt_keycode"
            /\ UNCHANGED exit_error
    /\ UNCHANGED <<platform, config_file, ptt_key, active_window, query_runs,
                   responses, clipboard, audio_new, init_warned, capture_mode,
                   sample_format, cpal_vars, pw_vars, loop_pc, files, last,
                   spawned, jobs>>

\* get_ptt_keycode returning the parse error to main
GetPttKeycodeMut ==
    /\ main_pc = "get_ptt_keycode"
    /\ IF KeycodeFromStr(app_config.ptt_key) = "Err"
       THEN /\ exit_error' = "config_error"
            /\ main_pc' = "exited"
            /\ UNCHANGED ptt_key
       ELSE /\ ptt_key' = KeycodeFromStr(app_config.ptt_key)
            /\ main_pc' = "audio_new"
            /\ UNCHANGED exit_error
    /\ UNCHANGED <<platform, sound_enabled, config_file, app_config,
                   paste_overrides, active_window, query_runs, responses,
                   clipboard, audio_new, init_warned, capture_mode, sample_format,
                   cpal_vars, pw_vars, loop_pc, files, last, spawned, jobs>>

\* main.rs:84, config.rs:99-104  get_ptt_keycode():
\* Keycode::from_str(..).unwrap_or_else(|_| { eprintln!(..); Keycode::RControl })
GetPttKeycode ==
    /\ main_pc = "get_ptt_keycode"
    /\ ptt_key' = IF KeycodeFromStr(app_config.ptt_key) = "Err" THEN "RControl"
                  ELSE KeycodeFromStr(app_config.ptt_key)
    /\ main_pc' = "audio_new"
    /\ UNCHANGED <<platform, sound_enabled, config_file, app_config,
                   paste_overrides, active_window, query_runs, responses,
                   clipboard, audio_new, exit_error, init_warned, capture_mode,
                   sample_format, cpal_vars, pw_vars, loop_pc, files, last,
                   spawned, jobs>>

\* main() about to load config.toml, whatever that file is
InitConfig ==
    /\ main_pc = "load_config"
    /\ platform \in {"linux", "macos"}
    /\ config_file \in ConfigFiles
    /\ app_config = NoConfig
    /\ sound_enabled = NoConfig.sound_enabled
    /\ paste_overrides = NoConfig.paste_overrides
    /\ ptt_key = NoKey
    /\ active_window = <<"x">>
    /\ query_runs = TRUE
    /\ responses = RespTexts
    /\ clipboard = <<"a">>
    /\ audio_new = "none"
    /\ exit_error = "none"
    /\ init_warned = FALSE
    /\ capture_mode = "none"
    /\ sample_format = "none"
    /\ audio_buffer = <<>>
    /\ is_recording = FALSE
    /\ loop_pc = "poll"
    /\ cb_pc = "idle"
    /\ cb_data = <<>>
    /\ frames = 0
    /\ gated = <<>>
    /\ buffer_snapshot = <<>>
    /\ recorder = FALSE
    /\ current_file = NoPath
    /\ files = {}
    /\ last = NoEvent
    /\ spawned = 0
    /\ jobs = [j \in JobIds |-> NoJob]

NextConfig ==
    \/ ConfigLoad
    \/ GetPttKeycode

SpecConfig == InitConfig /\ [][NextConfig]_vars

(* =============================== claims ================================ *)
\* the step of the stop edge that copies the buffer
SnapshotStep == loop_pc = "stop_snapshot" /\ loop_pc' = "poll"

\* C1: the snapshot taken at stop is the concatenation, in callback order, of
\* exactly the frames whose gate check read true during the cycle.
C1_SnapshotIsGatedFrames ==
    [][SnapshotStep => buffer_snapshot' = gated]_vars

\* C2: at the moment the gate becomes true the audio buffer is empty.
C2_BufferEmptyWhenGateSet ==
    [][(~is_recording /\ is_recording') => audio_buffer' = <<>>]_vars

\* C3: a callback step appends to the buffer only while the gate is true; with
\* the gate false it leaves the buffer unchanged.
C3_AppendOnlyWhileGated ==
    [][(cb_pc' /= cb_pc /\ ~is_recording) => audio_buffer' = audio_buffer]_vars

\* C4: the gate is false initially; it is set true only by the loop iteration
\* that saw the key held with the gate false, set false only by the iteration
\* that saw it released with the gate true, and written by nothing else; so it
\* is true only between a start and its matching stop.
C4_GateDrivenByLoopEdges ==
    /\ ~is_recording
    /\ [](is_recording => (last.ev = "start" /\ last.held /\ loop_pc = "poll"))
    /\ [][(is_recording' /= is_recording) =>
            /\ UNCHANGED <<cb_pc, cb_data, audio_buffer, jobs>>
            /\ IF is_recording'
               THEN /\ loop_pc = "start_store" /\ loop_pc' = "poll"
                    /\ last.ev = "start" /\ last.held
               ELSE /\ loop_pc = "poll" /\ loop_pc' = "stop_snapshot"
                    /\ last'.ev = "stop" /\ ~last'.held]_vars

C4_Witness ==
    /\ capture_mode = "Cpal" /\ is_recording /\ spawned = 1
    /\ last.ev = "start"

\* the primary backend cannot be constructed: no device, no default config,
\* or a sample format build_stream does not support
ConstructionFails ==
    audio_new \in {"no_device", "no_config"}
    \/ (audio_new = "ok" /\ sample_format \notin {"F32", "I16"})

\* C5: every failure of primary backend construction (no device, no default
\* config, unsupported sample format) ends in fallback mode, warned, idle, with
\* the event loop started; the process does not exit.
C5_InitFailureFallsBack ==
    [][(main_pc = "capture_init" /\ ConstructionFails) =>
            /\ main_pc' = "loop"
            /\ capture_mode' = "PwRecord"
            /\ init_warned'
            /\ ~recorder' /\ current_file' = NoPath]_vars

\* C6: a job whose injection failed has logged the error and sent a
\* notification.
C6_InjectFailureLoggedAndNotified ==
    \A j \in JobIds :
        jobs[j].tt = "err" => (jobs[j].inj_logged /\ jobs[j].notify /= "none")

\* C7: type_text returns Ok only if every helper it ran exited with status 0.
C7_NonzeroExitIsError ==
    \A j \in JobIds : jobs[j].tt = "ok" => ~jobs[j].nonzero

\* job j has sent the error notification
Failed(j) == jobs[j].notify = "Voice PTT Error"

\* the loop iteration that starts a recording
StartEdge ==
    \/ PollCpal /\ loop_pc' = "start_clear"
    \/ PollPwStart

\* C8: a job whose transcription failed sends the "Voice PTT Error"
\* notification and never reaches the injector; its steps leave the event loop
\* where it was, and a new recording can be started afterwards.
C8_TranscriptionFailure ==
    /\ [][\A j \in JobIds :
            /\ (jobs[j].pc = "transcribe" /\ jobs'[j].api \in ApiErrors) => Failed(j)'
            /\ (jobs[j].pc = "transcribe" /\ jobs'[j].pc = "type_text")
                  => jobs'[j].api = "ok"
            /\ Failed(j) =>
                  /\ jobs'[j].pc \in {"finish", "done"}
                  /\ jobs'[j].tt = "none" /\ jobs'[j].helpers = 0
                  /\ Failed(j)'
            /\ (Failed(j) /\ jobs'[j] /= jobs[j]) =>
                  UNCHANGED <<main_pc, loop_pc, capture_mode, is_recording,
                              audio_buffer, recorder, current_file>>]_vars
    /\ [](\A j \in JobIds :
            (/\ Failed(j) /\ main_pc = "loop" /\ loop_pc = "poll"
             /\ ~is_recording /\ ~recorder /\ spawned < MaxJobs)
            => ENABLED StartEdge)

C8_Witness ==
    \E j \in JobIds :
        /\ jobs[j].pc = "done" /\ Failed(j)
        /\ spawned = j
        /\ last.ev = "start" /\ (is_recording \/ recorder)

\* C9: on a fallback release edge a file of 44 bytes or less, or one whose
\* metadata cannot be read, spawns no job and leaves the controller idle with a
\* warning; a file of 45 bytes or more spawns exactly one job, for that file.
C9_SmallFileNeverTranscribed ==
    [][(recorder /\ ~recorder') =>
            /\ current_file' = NoPath
            /\ last'.ev = "stop"
            /\ IF last'.size = MetadataErr \/ last'.size <= 44
               THEN /\ spawned' = spawned /\ jobs' = jobs
                    /\ last'.warn /\ last'.job = 0
               ELSE /\ last'.size >= 45
                    /\ spawned' = spawned + 1 /\ last'.job = spawned'
                    /\ jobs'[spawned'] = NewJob("file", <<>>, current_file)
                    /\ \A j \in JobIds \ {spawned'} : jobs'[j] = jobs[j]]_vars

C9_Witness ==
    /\ capture_mode = "PwRecord" /\ ~recorder
    /\ last.ev = "stop" /\ last.size = 44 /\ last.warn /\ last.job = 0
    /\ spawned = 1 /\ jobs[1].kind = "file"

\* C10: a primary-mode release whose buffer got no frame takes an empty
\* snapshot and spawns no job, and the end earcon has been requested all the
\* same (and is played when sound is enabled).
C10_EmptyCaptureNoJob ==
    [][(SnapshotStep /\ audio_buffer = <<>>) =>
            /\ buffer_snapshot' = <<>>
            /\ spawned' = spawned /\ jobs' = jobs
            /\ last'.ev = "stop" /\ last'.sound_call = "end"
            /\ (sound_enabled => last'.sound = "end")]_vars

C10_Witness ==
    /\ capture_mode = "Cpal" /\ loop_pc = "poll" /\ ~is_recording
    /\ last.ev = "stop" /\ last.sound_call = "end"
    /\ buffer_snapshot = <<>> /\ spawned = 0

\* job j has been spawned and has not ended
InFlight(j) == jobs[j].pc \notin {"unborn", "done"}

\* C11: in-flight jobs share no mutable state: a primary-mode job's samples are
\* its own copy, which no clear of or append to the shared buffer changes, and
\* a fallback-mode job's path differs from the path of every other in-flight
\* job and from the path of the recording in progress.
C11_JobsShareNothing ==
    /\ [][\A j \in JobIds :
            (jobs[j].pc = "transcribe" /\ jobs[j].kind = "samples"
             /\ audio_buffer' /= audio_buffer)
            => jobs'[j].samples = jobs[j].samples]_vars
    /\ [](\A j \in JobIds :
            (InFlight(j) /\ jobs[j].kind = "file") =>
                /\ jobs[j].path /= NoPath
                /\ jobs[j].path /= current_file
                /\ \A k \in JobIds \ {j} :
                      (InFlight(k) /\ jobs[k].kind = "file")
                      => jobs[k].path /= jobs[j].path)

\* any step of the detached task j
JobStep(j) ==
    \/ JobTranscribe(j)
    \/ JobTypeText(j)
    \/ JobXsel(j)
    \/ JobPaste(j)
    \/ JobOsascript(j)
    \/ JobFinish(j)

\* the pipeline with sound enabled, the primary backend capturing
InitLive == Init /\ sound_enabled

\* tokio keeps polling the spawned tasks that can make progress: the runtime's
\* worker threads are not the thread the event loop runs on (main.rs:60, 192)
SpecLive ==
    InitLive /\ [][NextPrimary]_vars /\ WF_vars(\E j \in JobIds : JobStep(j))

\* the loop iteration that ends a recording
StopEdge ==
    \/ PollCpal /\ loop_pc' = "stop_snapshot"
    \/ PollPwStop

\* C12: the event loop never waits for a job: with jobs in flight a press
\* still starts a recording and a release still ends it and spawns a further
\* job, no step of the loop touches a job in flight, and every spawned job
\* runs to completion whatever the loop does meanwhile: from some point on no
\* job is in flight any more (an ended job stays ended).
C12_LoopNeverWaitsForJobs ==
    /\ [](\A j \in JobIds :
            (InFlight(j) /\ main_pc = "loop" /\ loop_pc = "poll") =>
                /\ (~is_recording /\ ~recorder /\ spawned < MaxJobs)
                      => ENABLED StartEdge
                /\ (is_recording \/ recorder) => ENABLED StopEdge)
    /\ [](loop_pc = "stop_snapshot" => ENABLED StopSnapshot)
    /\ [][\A j \in JobIds :
            (InFlight(j) /\ (loop_pc' /= loop_pc \/ last' /= last
                             \/ spawned' /= spawned))
            => jobs'[j] = jobs[j]]_vars
    /\ <>[](\A j \in JobIds : ~InFlight(j))

\* two jobs in flight at once, the second spawned while the first was running
C12_Witness ==
    /\ spawned = 2
    /\ InFlight(1) /\ InFlight(2)
    /\ last.ev = "stop" /\ last.job = 2

\* C13: a fallback-mode job ends only through the step that removes its
\* recorded file, whichever way transcription and injection went, and that
\* step comes after the transcription attempt and any injection are over.
C13_FileRemovedBeforeEnd ==
    /\ [][\A j \in JobIds :
            (jobs[j].kind = "file" /\ jobs[j].pc /= "done"
             /\ jobs'[j].pc = "done")
            => /\ jobs[j].pc = "finish"
               /\ jobs'[j].removed
               /\ jobs[j].path \notin files']_vars
    /\ [][\A j \in JobIds :
            (jobs'[j].removed /= jobs[j].removed)
            => /\ jobs[j].pc = "finish"
               /\ jobs[j].api /= "none"
               /\ jobs[j].tt /= "running"]_vars
    /\ [](\A j \in JobIds :
            (jobs[j].pc = "finish" /\ jobs[j].kind = "file") =>
                \/ jobs[j].api \in ApiErrors /\ jobs[j].tt = "none"
                \/ jobs[j].api = "ok" /\ jobs[j].tt \in {"ok", "err"})

\* one job ended after a failed transcription, its file removed, and another
\* about to end after a failed injection
C13_Witness ==
    /\ capture_mode = "PwRecord"
    /\ jobs[1].pc = "done" /\ jobs[1].removed /\ Failed(1)
    /\ jobs[2].pc = "finish" /\ jobs[2].kind = "file" /\ jobs[2].tt = "err"
    /\ jobs[2].path \in files

\* the press on which pw-record could not be spawned
SpawnFailed == last.ev = "start_failed"

OnlyBlankResponses == \A r \in responses : \A i \in 1..Len(r) : IsSpace(r[i])

\* C15: type_text with empty text returns Ok without sleeping and without
\* running any helper; the client trims the response text, so with a service
\* that answers only empty or white-space-only texts no job ever sleeps for
\* injection, sets the clipboard, queries the window or sends a keystroke.
C15_EmptyTextNoHelper ==
    /\ [][\A j \in JobIds :
            (jobs[j].pc = "type_text" /\ jobs[j].text = <<>>
             /\ jobs'[j] /= jobs[j])
            => /\ jobs'[j].pc = "finish" /\ jobs'[j].tt = "ok"
               /\ jobs'[j].helpers = 0 /\ jobs'[j].slept = NotSlept]_vars
    /\ [][\A j \in JobIds :
            (jobs[j].pc = "transcribe" /\ jobs'[j].pc = "type_text")
            => jobs'[j].text \in {Trim(r) : r \in responses}]_vars
    /\ [](OnlyBlankResponses =>
            \A j \in JobIds :
                /\ jobs[j].text = <<>>
                /\ jobs[j].helpers = 0 /\ jobs[j].slept = NotSlept
                /\ jobs[j].paste_key = "none" /\ jobs[j].script = <<>>
                /\ jobs[j].pc \notin {"xsel", "paste", "osascript"})

\* a blank answer went through type_text, which returned Ok with no helper run
C15_Witness ==
    /\ OnlyBlankResponses
    /\ jobs[1].pc = "finish" /\ jobs[1].api = "ok" /\ jobs[1].tt = "ok"
    /\ jobs[1].text = <<>> /\ jobs[1].helpers = 0

\* C16: every helper type_text runs is run by a job that has slept
\* initial_delay_ms, and the step in which the job sleeps runs no helper.
C16_HelpersAfterInitialDelay ==
    /\ [][\A j \in JobIds :
            (jobs'[j].helpers > jobs[j].helpers)
            => /\ jobs[j].slept /= NotSlept
               /\ jobs[j].slept = app_config.initial_delay_ms]_vars
    /\ [][\A j \in JobIds :
            (jobs[j].slept = NotSlept /\ jobs'[j].slept /= NotSlept)
            => /\ jobs[j].pc = "type_text" /\ jobs[j].text /= <<>>
               /\ jobs[j].helpers = 0 /\ jobs'[j].helpers = 0]_vars
    /\ [](\A j \in JobIds :
            jobs[j].pc \in {"xsel", "paste", "osascript"}
            => jobs[j].slept /= NotSlept)

\* the three Linux helpers have run, after the sleep
C16_Witness ==
    /\ platform = "linux"
    /\ jobs[1].pc = "finish" /\ jobs[1].tt = "ok"
    /\ jobs[1].helpers = 3 /\ jobs[1].slept = DefaultConfig.initial_delay_ms

\* ASCII case folding, on the characters of the model
AsciiLowerChar(c) == IF c = "K" THEN "k" ELSE c

AsciiFold(name) == [i \in 1..Len(name) |-> AsciiLowerChar(name[i])]

\* the keys of the map equal to the focused window's class under ASCII case
\* folding; none when the query could not be run
MatchingKeys ==
    IF query_runs
    THEN {k \in DOMAIN paste_overrides : AsciiFold(k) = AsciiFold(active_window)}
    ELSE {}

\* C17: the shortcut xdotool key was run with is the override value of the key
\* that equals the window class under ASCII case folding, whichever such key
\* it is when several differ only in case, and "ctrl+v" when there is none or
\* the window query failed.
C17_PasteKeyIsOverride ==
    \A j \in JobIds :
        (jobs[j].tt = "ok" /\ jobs[j].paste_key /= "none") =>
            IF MatchingKeys = {} THEN jobs[j].paste_key = "ctrl+v"
            ELSE \A k \in MatchingKeys : jobs[j].paste_key = paste_overrides[k]

\* one pass over the text putting one backslash before each " and each \
RECURSIVE EscapeOnce(_)
EscapeOnce(t) ==
    IF t = <<>> THEN <<>>
    ELSE (IF Head(t) \in {DQuote, Backslash} THEN <<Backslash, Head(t)>>
          ELSE <<Head(t)>>) \o EscapeOnce(Tail(t))

\* what AppleScript reads from the text after an opening ": a backslash
\* takes the next character as it is, a bare " ends the literal
RECURSIVE ReadLiteral(_)
ReadLiteral(t) ==
    IF t = <<>> \/ Head(t) = DQuote THEN <<>>
    ELSE IF Head(t) = Backslash
    THEN (IF Len(t) >= 2 THEN <<t[2]>> \o ReadLiteral(SubSeq(t, 3, Len(t)))
          ELSE <<>>)
    ELSE <<Head(t)>> \o ReadLiteral(Tail(t))

\* C18: the text embedded in the AppleScript osascript was run with has each " and each \ of the
\* transcription escaped by one backslash, and reading the literal back gives
\* the transcription.
C18_EscapeRoundTrip ==
    \A j \in JobIds :
        (jobs[j].tt = "ok" /\ jobs[j].script /= <<>>) =>
            /\ jobs[j].script = EscapeOnce(jobs[j].text)
            /\ ReadLiteral(jobs[j].script) = jobs[j].text

\* the step in which AppConfig::load returns
LoadStep == main_pc = "load_config" /\ main_pc' /= "load_config"

\* C19: loading a config file that does not exist is not an error and gives
\* the documented defaults: ptt_key "RControl", typing_delay_ms 50,
\* initial_delay_ms 150, model "whisper-1", no language, sound enabled, no
\* paste override.
C19_MissingFileGivesDefaults ==
    [][(LoadStep /\ config_file.status = "absent") =>
            /\ main_pc' = "get_ptt_keycode" /\ exit_error' = "none"
            /\ app_config'.ptt_key = "RControl"
            /\ app_config'.typing_delay_ms = 50
            /\ app_config'.initial_delay_ms = 150
            /\ app_config'.model = "whisper-1"
            /\ app_config'.language = "none"
            /\ app_config'.sound_enabled /\ sound_enabled'
            /\ DOMAIN app_config'.paste_overrides = {}
            /\ DOMAIN paste_overrides' = {}]_vars

\* the defaults loaded from a missing file
C19_Witness ==
    /\ config_file.status = "absent"
    /\ main_pc = "get_ptt_keycode" /\ exit_error = "none"
    /\ app_config.ptt_key = "RControl" /\ sound_enabled

\* the step in which get_ptt_keycode returns
KeycodeStep == main_pc = "get_ptt_keycode" /\ main_pc' /= "get_ptt_keycode"

\* C20: get_ptt_keycode gives the keycode ptt_key names when the name
\* resolves and RControl when it does not, and startup goes on either way.
C20_UnknownKeyFallsBack ==
    [][KeycodeStep =>
            /\ main_pc' = "audio_new" /\ exit_error' = "none"
            /\ IF app_config.ptt_key \in KeycodeNames
               THEN ptt_key' = app_config.ptt_key
               ELSE ptt_key' = "RControl"]_vars

\* a config naming no key, and startup past it with RControl
C20_Witness ==
    /\ main_pc = "audio_new" /\ exit_error = "none"
    /\ app_config.ptt_key = "InvalidKeyName"
    /\ ptt_key = "RControl"

\* C21: start is performed at most once while the key stays held and stop at
\* most once per release: no loop iteration performs the start actions when
\* the iteration before it saw the key held and performed them (with or
\* without a recorder coming of it), and every iteration that performs the
\* stop actions follows a start with no other edge in between.
C21_StartOncePerHold ==
    /\ [][StartEdge => ~(last.held /\ last.ev \in {"start", "start_failed"})]_vars
    /\ [][StopEdge => (last.ev = "start" /\ last.held)]_vars

\* C22: in fallback mode, at every boundary between two iterations of the
\* event loop, the recorder child and the output path are both present or both
\* absent; outside fallback mode there is neither.
C22_RecorderAndPathTogether ==
    /\ recorder <=> (current_file /= NoPath)
    /\ recorder => (main_pc = "loop" /\ capture_mode = "PwRecord"
                    /\ loop_pc = "poll")

\* a second recording in progress (child and path both there) while the job
\* of the first, stopped one is in flight
C22_Witness ==
    /\ capture_mode = "PwRecord" /\ recorder /\ current_file /= NoPath
    /\ spawned = 1 /\ last.ev = "start"
    /\ \E j \in JobIds : InFlight(j)

\* C23: within one injection job on Linux the paste shortcut is synthesized
\* only after that job's xsel has been run and waited for, and the step that
\* runs xsel sends no shortcut; across jobs nothing orders the steps: a job at
\* its xsel or its paste step can take it whatever the other jobs are at.
C23_InjectionOrder ==
    /\ [][\A j \in JobIds :
            (jobs'[j].pasted /= <<>> /\ jobs'[j].pasted /= jobs[j].pasted)
            => /\ jobs[j].pc = "paste" /\ jobs[j].helpers = 1
               /\ jobs'[j].pasted = clipboard]_vars
    /\ [][\A j \in JobIds :
            (jobs[j].pc = "xsel" /\ jobs'[j] /= jobs[j])
            => /\ jobs'[j].pasted = <<>> /\ jobs'[j].paste_key = "none"
               /\ jobs'[j].pc \in {"paste", "finish"}
               /\ (jobs'[j].pc = "paste" => jobs'[j].helpers = 1)]_vars
    /\ [](\A j \in JobIds :
            jobs[j].pc = "paste" =>
                (jobs[j].helpers = 1 /\ jobs[j].slept /= NotSlept
                 /\ jobs[j].pasted = <<>>))
    /\ [](\A j \in JobIds :
            /\ jobs[j].pc = "xsel" => ENABLED JobXsel(j)
            /\ jobs[j].pc = "paste" => ENABLED JobPaste(j))

\* the job of the later release has sent its shortcut while the job of the
\* earlier release has not yet, and what the clipboard held then was the
\* earlier job's text, not its own
C23_Witness ==
    /\ jobs[2].pc = "finish" /\ jobs[2].tt = "ok"
    /\ jobs[1].pc = "paste"
    /\ jobs[1].text /= jobs[2].text
    /\ jobs[2].pasted = jobs[1].text

\* the controller's state: where main() and the loop are, the capture mode
\* and what it holds
controller_vars == <<main_pc, exit_error, loop_pc, capture_mode, is_recording,
                     audio_buffer, recorder, current_file>>

\* C24: a job is a failure boundary: every step of a job, whether it succeeds,
\* fails to transcribe or fails to inject, leaves the controller's state (gate,
\* shared buffer, capture mode, recorder child, current path, the loop's
\* position) unchanged; once the event loop has started main() never leaves
\* it, and the loop always has its next step to take.
C24_JobIsFailureBoundary ==
    /\ [][\A j \in JobIds :
            (InFlight(j) /\ jobs'[j] /= jobs[j]) => UNCHANGED controller_vars]_vars
    /\ [][main_pc = "loop" => (main_pc' = "loop" /\ exit_error' = "none")]_vars
    /\ [](main_pc = "loop" =>
            /\ capture_mode \in {"Cpal", "PwRecord"}
            /\ (capture_mode = "Cpal" /\ (is_recording \/ spawned < MaxJobs))
                  => ENABLED (PollCpal \/ StartClear \/ StartStore \/ StopSnapshot)
            /\ (capture_mode = "PwRecord" /\ (recorder \/ spawned < MaxJobs))
                  => ENABLED (PollPwStart \/ PollPwStop))

\* a job whose injection failed, about to end, while the loop has gone on to
\* the next recording
C24_Witness ==
    /\ main_pc = "loop" /\ last.ev = "start" /\ (is_recording \/ recorder)
    /\ spawned = 1
    /\ jobs[1].pc = "finish" /\ jobs[1].api = "ok" /\ jobs[1].tt = "err"

\* the languages a config may name, besides none
Languages == {"en"}

\* the pipeline on Linux, both capture backends, with a config file that
\* names a language or does not
InitClient ==
    /\ main_pc = "audio_new"
    /\ platform = "linux"
    /\ sound_enabled = DefaultConfig.sound_enabled
    /\ \E lang \in Languages \cup {"none"} :
         app_config = [DefaultConfig EXCEPT !.language = lang]
    /\ config_file = IF app_config = DefaultConfig THEN AbsentFile
                     ELSE ParsedFile(app_config)
    /\ paste_overrides = app_config.paste_overrides
    /\ ptt_key = DefaultConfig.ptt_key
    /\ active_window = <<"x">>
    /\ query_runs = TRUE
    /\ responses = RespTexts
    /\ clipboard = <<"a">>
    /\ audio_new = "none"
    /\ exit_error = "none"
    /\ init_warned = FALSE
    /\ capture_mode = "none"
    /\ sample_format = "none"
    /\ audio_buffer = <<>>
    /\ is_recording = FALSE
    /\ loop_pc = "poll"
    /\ cb_pc = "idle"
    /\ cb_data = <<>>
    /\ frames = 0
    /\ gated = <<>>
    /\ buffer_snapshot = <<>>
    /\ recorder = FALSE
    /\ current_file = NoPath
    /\ files = {}
    /\ last = NoEvent
    /\ spawned = 0
    /\ jobs = [j \in JobIds |-> NoJob]

NextClient ==
    \/ AudioNew
    \/ CaptureInit
    \/ CbCheck
    \/ CbAppend
    \/ PollCpal
    \/ StartClear
    \/ StartStore
    \/ StopSnapshot
    \/ PollPwStart
    \/ PollPwStop
    \/ PollPwIdle
    \/ \E j \in JobIds : JobTranscribe(j)
    \/ \E j \in JobIds : JobTypeText(j)
    \/ \E j \in JobIds : JobXsel(j)
    \/ \E j \in JobIds : JobPaste(j)
    \/ \E j \in JobIds : JobFinish(j)

SpecClient == InitClient /\ [][NextClient]_vars

\* the step in which job j's transcription returns
TranscribeReturns(j) == jobs[j].pc = "transcribe" /\ jobs'[j].pc /= "transcribe"

\* C25: the client never retries: a job sends at most one POST, all of it
\* within its transcription step; a POST that failed (send error or non-2xx
\* status) was the only one and the job goes on to end with the error
\* notified, never to the injector; and the form sent has a `language` field
\* exactly when the config has a language, with that language as its value.
C25_OnePostNoRetry ==
    /\ [](\A j \in JobIds : jobs[j].posts <= 1)
    /\ [][\A j \in JobIds :
            (jobs'[j].posts /= jobs[j].posts /\ jobs'[j].pc /= "done")
            => TranscribeReturns(j)]_vars
    /\ [][\A j \in JobIds :
            TranscribeReturns(j) =>
                /\ jobs'[j].api \in {"send_error", "http_error"} =>
                      /\ jobs'[j].posts = 1
                      /\ jobs'[j].pc = "finish" /\ Failed(j)'
                /\ jobs'[j].api \in {"ok", "parse_error"} => jobs'[j].posts = 1
                /\ jobs'[j].posts = 1 =>
                      /\ (jobs'[j].lang_field /= "none")
                            <=> (app_config.language /= "none")
                      /\ jobs'[j].lang_field = app_config.language]_vars
    /\ [][\A j \in JobIds :
            (jobs[j].api \in {"send_error", "http_error"} /\ jobs'[j] /= jobs[j])
            => (jobs'[j].pc = "done" /\ jobs[j].posts = 1)]_vars

\* with a language configured, one job whose POST got a non-2xx status and
\* one whose single POST, carrying the language, was answered
C25_Witness ==
    /\ app_config.language = "en"
    /\ jobs[1].pc = "finish" /\ jobs[1].api = "http_error" /\ jobs[1].posts = 1
    /\ jobs[2].pc = "finish" /\ jobs[2].api = "ok" /\ jobs[2].posts = 1
    /\ jobs[2].lang_field = "en"

====
